---- MODULE Spec2Model ----
(***************************************************************************)
(* dockrun: run a container detached, relay interrupt/kill to it, wait for *)
(* it, print its logs, remove it and exit with the container's exit code.  *)
(* Model of src/dockrun.go.  Text returned by docker is a sequence of      *)
(* one-character strings, so that Trim, Contains and Atoi are computed.    *)
(***************************************************************************)
EXTENDS Integers, Sequences, FiniteSets, TLC

\* ---------------------------------------------------------------- bounds
\* number of termination signals the host delivers in one run
MaxSignals == 3

\* number of signals whose handling is recorded when the host sends signals
\* for ever
LiveSignals == 1

\* ---------------------------------------------------------------- text
NL == "\n"

ErrorMarker == <<"E","r","r","o","r">>

NoSuchContainer ==
  <<"N","o"," ","s","u","c","h"," ","c","o","n","t","a","i","n","e","r">>

Digits == {"0","1","2","3","4","5","6","7","8","9"}

DigitVal(c) ==
  CASE c = "0" -> 0 [] c = "1" -> 1 [] c = "2" -> 2 [] c = "3" -> 3
    [] c = "4" -> 4 [] c = "5" -> 5 [] c = "6" -> 6 [] c = "7" -> 7
    [] c = "8" -> 8 [] c = "9" -> 9

\* strings.Contains(s, sub)
Contains(s, sub) ==
  \E i \in 1..(Len(s) - Len(sub) + 1) : SubSeq(s, i, i + Len(sub) - 1) = sub

RECURSIVE TrimLeft(_)
TrimLeft(s) ==
  IF s # <<>> /\ Head(s) = NL THEN TrimLeft(Tail(s)) ELSE s

RECURSIVE TrimRight(_)
TrimRight(s) ==
  IF s # <<>> /\ s[Len(s)] = NL THEN TrimRight(SubSeq(s, 1, Len(s) - 1)) ELSE s

\* variant: only trailing newlines are removed
Trim_trailing(s) == TrimRight(s)

\* strings.Trim(s, "\n"): leading and trailing newlines removed
Trim(s) == TrimRight(TrimLeft(s))

RECURSIVE DecVal(_)
DecVal(s) ==
  IF s = <<>> THEN 0 ELSE 10 * DecVal(SubSeq(s, 1, Len(s) - 1)) + DigitVal(s[Len(s)])

\* strconv.Atoi(s): optional sign, then one or more decimal digits.
\* (texts here are short, so the out-of-range error never arises)
Atoi(s) ==
  LET signed == s # <<>> /\ Head(s) \in {"+", "-"}
      body   == IF signed THEN Tail(s) ELSE s
      ok     == body # <<>> /\ \A i \in 1..Len(body) : body[i] \in Digits
  IN  IF ok
        THEN [val |-> IF signed /\ Head(s) = "-" THEN 0 - DecVal(body) ELSE DecVal(body),
              err |-> FALSE]
        ELSE [val |-> 0, err |-> TRUE]

\* ---------------------------------------------------------------- inputs
\* argument vectors given to the program (os.Args[1:])
ArgVectors ==
  { <<>>, <<"img">>,
    <<"-i", "img">>, <<"img", "-a">>, <<"-i", "-a">>, <<"-t", "-i", "img">> }

\* combined output of "docker run -d ..."
RunOutputs ==
  { <<NL,"a","b","c","d",NL>>, <<"a","b","c",NL>>, <<"a",NL,"b",NL>>,
    <<NL,NL,NL,NL,NL>>, <<>> }

\* combined output of "docker wait ID"
WaitOutputs ==
  { <<"0",NL>>, <<"1","3","7",NL>>, <<"2","5","6",NL>>, <<"-","1",NL>>,
    <<"a","b","c",NL>>, <<"E","r","r","o","r",":"," ","x",NL>> }

\* combined output of "docker logs ID"
LogsOutputs ==
  { <<"h","i",NL>>,
    <<"E","r","r","o","r",":"," ">> \o NoSuchContainer }

\* combined output of "docker rm ID", "docker stop ID", "docker kill ID"
CtlOutputs == { <<"a","b","c","d",NL>>, <<"E","r","r","o","r">> }

\* runCommandWithOutput: the outcomes of running a command whose combined
\* output is one of outs.  err is set when the command could not be run or
\* exited with a status other than 0.  (The exitCode it also returns is only
\* printed, at line 114, and is not kept here.)
runCommandWithOutput(outs) ==
  { [output |-> o, err |-> e] : o \in outs, e \in BOOLEAN }

\* runCommandWithOutputResult: the same outcome as a cmdResult
runCommandWithOutputResult(outs) == runCommandWithOutput(outs)

NoResult == [output |-> <<>>, err |-> FALSE]

Interrupt == "interrupt"
Kill == "kill"
Signals == {Interrupt, Kill}

\* ---------------------------------------------------------------- state
VARIABLES
  pc,            \* position of the main goroutine
  args,          \* os.Args[1:]
  containerID,   \* main: containerID
  registered,    \* signal.Notify has been called
  signals,       \* chan os.Signal, capacity 1
  waitCmdRes,    \* chan cmdResult, capacity 1
  bg,            \* the goroutine running runCommandSendResult
  sig,           \* waitForResult: sig
  action,        \* waitForResult: action
  waitResult,    \* main: waitResult
  waitOutput,    \* main: waitOutput
  waiterr,       \* main: waiterr
  finalExitCode, \* main: finalExitCode
  exitArg,       \* argument of the os.Exit call that ended the run (if pc = "exited")
  exitAt,        \* which os.Exit call ended the run
  calls,         \* docker invocations issued so far, in order
  hist           \* outcomes and signal counts observed so far

vars == <<pc, args, containerID, registered, signals, waitCmdRes, bg, sig,
          action, waitResult, waitOutput, waiterr, finalExitCode, exitArg,
          exitAt, calls, hist>>

None == "none"

Hist0 ==
  [ delivered  |-> 0,      \* signals the host sent to the process
    early      |-> 0,      \* of those, sent before the background wait finished
    dropped    |-> 0,      \* of those, discarded because the channel was full
    received   |-> <<>>,   \* signals taken from the channel by the loop
    ctlDone    |-> 0,      \* stop/kill invocations that returned
    ctlFirst   |-> <<>>,   \* the first of them returned: whether it failed
    run        |-> <<>>,   \* outcome of docker run, once returned
    first      |-> <<>>,   \* outcome the background wait produced
    fallback   |-> <<>>,   \* outcome of the synchronous fallback wait
    logs       |-> <<>>,   \* docker logs returned: whether it failed
    rm         |-> <<>> ]  \* docker rm returned: whether it failed

Init ==
  /\ pc = "validateArgs"
  /\ args \in ArgVectors
  /\ containerID = <<>>
  /\ registered = FALSE
  /\ signals = <<>>
  /\ waitCmdRes = <<>>
  /\ bg = "none"
  /\ sig = None
  /\ action = ""
  /\ waitResult = NoResult
  /\ waitOutput = <<>>
  /\ waiterr = FALSE
  /\ finalExitCode = 0
  /\ exitArg = 0
  /\ exitAt = None
  /\ calls = <<>>
  /\ hist = Hist0

\* exec.Command("docker", verb, id) started; for run, argv are the arguments
Invoke(verb, id, argv) ==
  calls' = Append(calls, [verb |-> verb, id |-> id, argv |-> argv])

\* os.Exit(code) at the named place
Exit(code, place) == pc' = "exited" /\ exitArg' = code /\ exitAt' = place

\* variant: only the first argument is examined
validateArgsFailed_first(a) ==
  \/ Len(a) < 1
  \/ a[1] = "-i" \/ a[1] = "-a"

\* validateArgs: failed is set by an empty vector, by -i and by -a
validateArgsFailed(a) ==
  \/ Len(a) < 1
  \/ \E i \in 1..Len(a) : a[i] = "-i" \/ a[i] = "-a"

defaultArgs == <<"run", "-d">>

\* main, lines 107-109
ValidateArgs ==
  /\ pc = "validateArgs"
  /\ IF validateArgsFailed(args)
       THEN Exit(1, "usage")
       ELSE pc' = "run" /\ UNCHANGED <<exitArg, exitAt>>
  /\ UNCHANGED <<args, containerID, registered, signals, waitCmdRes, bg, sig,
                 action, waitResult, waitOutput, waiterr, finalExitCode,
                 calls, hist>>

\* main, line 111: docker run -d args... is started
RunCall ==
  /\ pc = "run"
  /\ Invoke("run", <<>>, defaultArgs \o args)
  /\ pc' = "runReturn"
  /\ UNCHANGED <<args, containerID, registered, signals, waitCmdRes, bg, sig,
                 action, waitResult, waitOutput, waiterr, finalExitCode,
                 exitArg, exitAt, hist>>

\* variant: the length test is made on the output as returned, not trimmed
RunReturn_untrimmed ==
  /\ pc = "runReturn"
  /\ \E r \in runCommandWithOutput(RunOutputs) :
       /\ hist' = [hist EXCEPT !.run = <<r>>]
       /\ IF r.err
            THEN Exit(1, "launch") /\ UNCHANGED containerID
            ELSE /\ containerID' = Trim(r.output)
                 /\ IF Len(r.output) < 4
                      THEN Exit(1, "handle")
                      ELSE pc' = "notify" /\ UNCHANGED <<exitArg, exitAt>>
  /\ UNCHANGED <<args, registered, signals, waitCmdRes, bg, sig, action,
                 waitResult, waitOutput, waiterr, finalExitCode, calls>>

\* main, lines 112-122: docker run returns; the handle is its trimmed output
RunReturn ==
  /\ pc = "runReturn"
  /\ \E r \in runCommandWithOutput(RunOutputs) :
       /\ hist' = [hist EXCEPT !.run = <<r>>]
       /\ IF r.err
            THEN Exit(1, "launch") /\ UNCHANGED containerID
            ELSE /\ containerID' = Trim(r.output)
                 /\ IF Len(containerID') < 4
                      THEN Exit(1, "handle")
                      ELSE pc' = "notify" /\ UNCHANGED <<exitArg, exitAt>>
  /\ UNCHANGED <<args, registered, signals, waitCmdRes, bg, sig, action,
                 waitResult, waitOutput, waiterr, finalExitCode, calls>>

\* main, lines 125-127: the two channels are made and the signals registered
Notify ==
  /\ pc = "notify"
  /\ registered' = TRUE
  /\ signals' = <<>>
  /\ waitCmdRes' = <<>>
  /\ pc' = "go"
  /\ UNCHANGED <<args, containerID, bg, sig, action, waitResult, waitOutput,
                 waiterr, finalExitCode, exitArg, exitAt, calls, hist>>

\* main, lines 128-130: the goroutine is created and waitForResult entered
Go ==
  /\ pc = "go"
  /\ bg' = "created"
  /\ pc' = "select"
  /\ UNCHANGED <<args, containerID, registered, signals, waitCmdRes, sig,
                 action, waitResult, waitOutput, waiterr, finalExitCode,
                 exitArg, exitAt, calls, hist>>

\* runCommandSendResult: the goroutine starts docker wait ID
BgStart ==
  /\ bg = "created"
  /\ pc \notin {"exited", "killed"}
  /\ Invoke("wait", containerID, <<>>)
  /\ bg' = "running"
  /\ UNCHANGED <<pc, args, containerID, registered, signals, waitCmdRes, sig,
                 action, waitResult, waitOutput, waiterr, finalExitCode,
                 exitArg, exitAt, hist>>

\* runCommandSendResult: docker wait returns and its result is sent on c
BgSend ==
  /\ bg = "running"
  /\ pc \notin {"exited", "killed"}
  /\ Len(waitCmdRes) < 1
  /\ \E r \in runCommandWithOutputResult(WaitOutputs) :
       /\ waitCmdRes' = Append(waitCmdRes, r)
       /\ hist' = [hist EXCEPT !.first = <<r>>]
  /\ bg' = "done"
  /\ UNCHANGED <<pc, args, containerID, registered, signals, sig, action,
                 waitResult, waitOutput, waiterr, finalExitCode, exitArg,
                 exitAt, calls>>

\* variant: the verb chosen for the first signal is kept for the later ones
Verb_sticky(s, prev) ==
  IF prev # "" THEN prev
  ELSE IF s = Interrupt THEN "stop" ELSE "kill"

\* waitForResult, lines 58-63
Verb(s, prev) ==
  CASE s = Interrupt -> "stop"
    [] s = Kill -> "kill"
    [] OTHER -> prev

\* waitForResult, lines 57-65: a signal is taken and stop/kill is started
SelectSignal ==
  /\ pc = "select"
  /\ signals # <<>>
  /\ sig' = Head(signals)
  /\ signals' = Tail(signals)
  /\ action' = Verb(sig', action)
  /\ Invoke(action', containerID, <<>>)
  /\ hist' = [hist EXCEPT !.received = Append(@, sig')]
  /\ pc' = "control"
  /\ UNCHANGED <<args, containerID, registered, waitCmdRes, bg, waitResult,
                 waitOutput, waiterr, finalExitCode, exitArg, exitAt>>

\* the test of line 67 (and 168): the invocation is reported as failed
Failed(r) == r.err \/ Contains(r.output, ErrorMarker)

\* variant: a failed stop/kill is invoked once more
ControlReturn_retry ==
  /\ pc = "control"
  /\ \E r \in runCommandWithOutput(CtlOutputs) :
       /\ hist' = [hist EXCEPT !.ctlDone = @ + 1,
                               !.ctlFirst = IF @ = <<>> THEN <<Failed(r)>> ELSE @]
       /\ IF Failed(r) /\ Len(calls) < 12
            THEN Invoke(action, containerID, <<>>) /\ pc' = "control"
            ELSE pc' = "select" /\ UNCHANGED calls
  /\ UNCHANGED <<args, containerID, registered, signals, waitCmdRes, bg, sig,
                 action, waitResult, waitOutput, waiterr, finalExitCode,
                 exitArg, exitAt>>

\* variant: the loop is left after a signal has been handled
ControlReturn_leave ==
  /\ pc = "control"
  /\ \E r \in runCommandWithOutput(CtlOutputs) :
       hist' = [hist EXCEPT !.ctlDone = @ + 1,
                            !.ctlFirst = IF @ = <<>> THEN <<Failed(r)>> ELSE @]
  /\ pc' = "extract"
  /\ UNCHANGED <<args, containerID, registered, signals, waitCmdRes, bg, sig,
                 action, waitResult, waitOutput, waiterr, finalExitCode,
                 exitArg, exitAt, calls>>

\* variant: a failed stop/kill ends the run
ControlReturn_fatal ==
  /\ pc = "control"
  /\ \E r \in runCommandWithOutput(CtlOutputs) :
       /\ hist' = [hist EXCEPT !.ctlDone = @ + 1,
                               !.ctlFirst = IF @ = <<>> THEN <<Failed(r)>> ELSE @]
       /\ IF Failed(r)
            THEN Exit(1, "control")
            ELSE pc' = "select" /\ UNCHANGED <<exitArg, exitAt>>
  /\ UNCHANGED <<args, containerID, registered, signals, waitCmdRes, bg, sig,
                 action, waitResult, waitOutput, waiterr, finalExitCode,
                 calls>>

\* waitForResult, lines 66-69: stop/kill returns; failure is only printed
ControlReturn ==
  /\ pc = "control"
  /\ \E r \in runCommandWithOutput(CtlOutputs) :
       hist' = [hist EXCEPT !.ctlDone = @ + 1,
                            !.ctlFirst = IF @ = <<>> THEN <<Failed(r)>> ELSE @]
  /\ pc' = "select"
  /\ UNCHANGED <<args, containerID, registered, signals, waitCmdRes, bg, sig,
                 action, waitResult, waitOutput, waiterr, finalExitCode,
                 exitArg, exitAt, calls>>

\* variant: the error marker in the first output also triggers the fallback
SelectWait_marker ==
  /\ pc = "select"
  /\ waitCmdRes # <<>>
  /\ waitResult' = Head(waitCmdRes)
  /\ waitCmdRes' = Tail(waitCmdRes)
  /\ waitOutput' = waitResult'.output
  /\ waiterr' = waitResult'.err
  /\ pc' = IF Failed(waitResult') THEN "fallback" ELSE "extract"
  /\ UNCHANGED <<args, containerID, registered, signals, bg, sig, action,
                 finalExitCode, exitArg, exitAt, calls, hist>>

\* variant: the result is taken only when no signal is pending
SelectWait_afterSignals ==
  /\ pc = "select"
  /\ signals = <<>>
  /\ waitCmdRes # <<>>
  /\ waitResult' = Head(waitCmdRes)
  /\ waitCmdRes' = Tail(waitCmdRes)
  /\ waitOutput' = waitResult'.output
  /\ waiterr' = waitResult'.err
  /\ pc' = IF waiterr' THEN "fallback" ELSE "extract"
  /\ UNCHANGED <<args, containerID, registered, signals, bg, sig, action,
                 finalExitCode, exitArg, exitAt, calls, hist>>

\* waitForResult, lines 70-71, and main, lines 130-137
SelectWait ==
  /\ pc = "select"
  /\ waitCmdRes # <<>>
  /\ waitResult' = Head(waitCmdRes)
  /\ waitCmdRes' = Tail(waitCmdRes)
  /\ waitOutput' = waitResult'.output
  /\ waiterr' = waitResult'.err
  /\ pc' = IF waiterr' THEN "fallback" ELSE "extract"
  /\ UNCHANGED <<args, containerID, registered, signals, bg, sig, action,
                 finalExitCode, exitArg, exitAt, calls, hist>>

\* variant: the fallback's error replaces the first, its output does not
Fallback_keepOutput ==
  /\ pc = "fallback"
  /\ Invoke("wait", containerID, <<>>)
  /\ \E r \in runCommandWithOutput(WaitOutputs) :
       /\ waiterr' = r.err
       /\ hist' = [hist EXCEPT !.fallback = <<r>>]
  /\ pc' = "extract"
  /\ UNCHANGED <<args, containerID, registered, signals, waitCmdRes, bg, sig,
                 action, waitResult, waitOutput, finalExitCode, exitArg,
                 exitAt>>

\* variant: the second docker wait is run by a goroutine as well, and the
\* loop entered again
Fallback_async ==
  /\ pc = "fallback"
  /\ hist.fallback = <<>>
  /\ bg' = "created"
  /\ hist' = [hist EXCEPT !.fallback = <<NoResult>>]
  /\ pc' = "select"
  /\ UNCHANGED <<args, containerID, registered, signals, waitCmdRes, sig,
                 action, waitResult, waitOutput, waiterr, finalExitCode,
                 exitArg, exitAt, calls>>

\* variant: a signal pending at the fallback is relayed before it
Fallback_relay ==
  /\ pc = "fallback"
  /\ IF signals # <<>>
       THEN /\ sig' = Head(signals)
            /\ signals' = Tail(signals)
            /\ action' = Verb(sig', action)
            /\ Invoke(action', containerID, <<>>)
            /\ pc' = "fallback"
            /\ UNCHANGED <<waitOutput, waiterr, hist>>
       ELSE /\ Invoke("wait", containerID, <<>>)
            /\ \E r \in runCommandWithOutput(WaitOutputs) :
                 /\ waitOutput' = r.output
                 /\ waiterr' = r.err
                 /\ hist' = [hist EXCEPT !.fallback = <<r>>]
            /\ pc' = "extract"
            /\ UNCHANGED <<signals, sig, action>>
  /\ UNCHANGED <<args, containerID, registered, waitCmdRes, bg, waitResult,
                 finalExitCode, exitArg, exitAt>>

\* main, lines 138-139: the second, synchronous docker wait ID; its output
\* and error replace those of the first
Fallback ==
  /\ pc = "fallback"
  /\ Invoke("wait", containerID, <<>>)
  /\ \E r \in runCommandWithOutput(WaitOutputs) :
       /\ waitOutput' = r.output
       /\ waiterr' = r.err
       /\ hist' = [hist EXCEPT !.fallback = <<r>>]
  /\ pc' = "extract"
  /\ UNCHANGED <<args, containerID, registered, signals, waitCmdRes, bg, sig,
                 action, waitResult, finalExitCode, exitArg, exitAt>>

\* variant: the error of strconv.Atoi is ignored
Extract_ignoreAtoiErr ==
  /\ pc = "extract"
  /\ IF waiterr \/ Contains(waitOutput, ErrorMarker)
       THEN Exit(1, "wait") /\ UNCHANGED <<waitOutput, finalExitCode>>
       ELSE /\ waitOutput' = Trim(waitOutput)
            /\ finalExitCode' = Atoi(waitOutput').val
            /\ pc' = "logs"
            /\ UNCHANGED <<exitArg, exitAt>>
  /\ UNCHANGED <<args, containerID, registered, signals, waitCmdRes, bg, sig,
                 action, waitResult, waiterr, calls, hist>>

\* variant: the container is removed before the run ends on a wait failure
Extract_cleanup ==
  /\ pc = "extract"
  /\ IF waiterr \/ Contains(waitOutput, ErrorMarker)
       THEN /\ Invoke("rm", containerID, <<>>)
            /\ Exit(1, "wait")
            /\ UNCHANGED <<waitOutput, finalExitCode>>
       ELSE /\ waitOutput' = Trim(waitOutput)
            /\ UNCHANGED calls
            /\ LET n == Atoi(waitOutput')
               IN  IF n.err
                     THEN Exit(1, "atoi") /\ UNCHANGED finalExitCode
                     ELSE /\ finalExitCode' = n.val
                          /\ pc' = "logs"
                          /\ UNCHANGED <<exitArg, exitAt>>
  /\ UNCHANGED <<args, containerID, registered, signals, waitCmdRes, bg, sig,
                 action, waitResult, waiterr, hist>>

\* main, lines 143-155: the exit code is extracted from waitOutput
Extract ==
  /\ pc = "extract"
  /\ IF waiterr \/ Contains(waitOutput, ErrorMarker)
       THEN Exit(1, "wait") /\ UNCHANGED <<waitOutput, finalExitCode>>
       ELSE /\ waitOutput' = Trim(waitOutput)
            /\ LET n == Atoi(waitOutput')
               IN  IF n.err
                     THEN Exit(1, "atoi") /\ UNCHANGED finalExitCode
                     ELSE /\ finalExitCode' = n.val
                          /\ pc' = "logs"
                          /\ UNCHANGED <<exitArg, exitAt>>
  /\ UNCHANGED <<args, containerID, registered, signals, waitCmdRes, bg, sig,
                 action, waitResult, waiterr, calls, hist>>

\* the test of line 159: docker logs is reported as failed
LogsFailed(r) == r.err \/ Contains(r.output, NoSuchContainer)

\* variant: a failed docker logs ends the run
Logs_fatal ==
  /\ pc = "logs"
  /\ Invoke("logs", containerID, <<>>)
  /\ \E r \in runCommandWithOutput(LogsOutputs) :
       /\ hist' = [hist EXCEPT !.logs = <<LogsFailed(r)>>]
       /\ IF LogsFailed(r)
            THEN Exit(1, "logs")
            ELSE pc' = "rm" /\ UNCHANGED <<exitArg, exitAt>>
  /\ UNCHANGED <<args, containerID, registered, signals, waitCmdRes, bg, sig,
                 action, waitResult, waitOutput, waiterr, finalExitCode>>

\* main, lines 157-164: docker logs ID; its output is printed, or its failure
Logs ==
  /\ pc = "logs"
  /\ Invoke("logs", containerID, <<>>)
  /\ \E r \in runCommandWithOutput(LogsOutputs) :
       hist' = [hist EXCEPT !.logs = <<LogsFailed(r)>>]
  /\ pc' = "rm"
  /\ UNCHANGED <<args, containerID, registered, signals, waitCmdRes, bg, sig,
                 action, waitResult, waitOutput, waiterr, finalExitCode,
                 exitArg, exitAt>>

\* variant: a failed docker rm ends the run with status 1
Rm_rmStatus ==
  /\ pc = "rm"
  /\ Invoke("rm", containerID, <<>>)
  /\ \E r \in runCommandWithOutput(CtlOutputs) :
       /\ hist' = [hist EXCEPT !.rm = <<Failed(r)>>]
       /\ Exit(IF Failed(r) THEN 1 ELSE finalExitCode, "end")
  /\ UNCHANGED <<args, containerID, registered, signals, waitCmdRes, bg, sig,
                 action, waitResult, waitOutput, waiterr, finalExitCode>>

\* main, lines 166-173: docker rm ID; a failure is printed, and the run ends
\* with finalExitCode
Rm ==
  /\ pc = "rm"
  /\ Invoke("rm", containerID, <<>>)
  /\ \E r \in runCommandWithOutput(CtlOutputs) :
       hist' = [hist EXCEPT !.rm = <<Failed(r)>>]
  /\ Exit(finalExitCode, "end")
  /\ UNCHANGED <<args, containerID, registered, signals, waitCmdRes, bg, sig,
                 action, waitResult, waitOutput, waiterr, finalExitCode>>

\* The host sends a termination signal to the process.  Before signal.Notify
\* (line 126) its default disposition ends the process; afterwards package
\* signal sends it on the channel without blocking, discarding it when the
\* channel's one slot is taken.  Both kinds registered at line 126 are taken
\* to reach the channel.
Deliver(s) ==
  /\ pc \notin {"exited", "killed"}
  /\ hist.delivered < MaxSignals
  /\ IF ~registered
       THEN /\ pc' = "killed"
            /\ hist' = [hist EXCEPT !.delivered = @ + 1]
            /\ UNCHANGED signals
       ELSE /\ pc' = pc
            /\ IF Len(signals) < 1
                 THEN /\ signals' = Append(signals, s)
                      /\ hist' = [hist EXCEPT !.delivered = @ + 1,
                                   !.early = IF bg # "done" THEN @ + 1 ELSE @]
                 ELSE /\ signals' = signals
                      /\ hist' = [hist EXCEPT !.delivered = @ + 1,
                                   !.early = IF bg # "done" THEN @ + 1 ELSE @,
                                   !.dropped = @ + 1]
  /\ UNCHANGED <<args, containerID, registered, waitCmdRes, bg, sig, action,
                 waitResult, waitOutput, waiterr, finalExitCode, exitArg,
                 exitAt, calls>>

Next ==
  \/ ValidateArgs
  \/ RunCall
  \/ RunReturn
  \/ Notify
  \/ Go
  \/ BgStart
  \/ BgSend
  \/ SelectSignal
  \/ ControlReturn
  \/ SelectWait
  \/ Fallback
  \/ Extract
  \/ Logs
  \/ Rm
  \/ \E s \in Signals : Deliver(s)

Spec == Init /\ [][Next]_vars

\* ------------------------------------------------- signals without end
\* The specification above lets the host send MaxSignals signals.  The one
\* below lets it send signals for ever: the first LiveSignals of them are
\* recorded in calls and hist as above, the later ones go through the same
\* code with nothing recorded, so that the state space stays finite.

\* signal.Notify's send of a signal that is no longer recorded
DeliverMore(s) ==
  /\ pc \notin {"exited", "killed"}
  /\ registered
  /\ hist.delivered >= LiveSignals
  /\ signals' = IF Len(signals) < 1 THEN Append(signals, s) ELSE signals
  /\ UNCHANGED <<pc, args, containerID, registered, waitCmdRes, bg, sig,
                 action, waitResult, waitOutput, waiterr, finalExitCode,
                 exitArg, exitAt, calls, hist>>

\* waitForResult, lines 57-65, for a signal that is no longer recorded
SelectSignalMore ==
  /\ pc = "select"
  /\ signals # <<>>
  /\ Len(hist.received) >= LiveSignals
  /\ sig' = Head(signals)
  /\ signals' = Tail(signals)
  /\ action' = Verb(sig', action)
  /\ pc' = "controlMore"
  /\ UNCHANGED <<args, containerID, registered, waitCmdRes, bg, waitResult,
                 waitOutput, waiterr, finalExitCode, exitArg, exitAt, calls,
                 hist>>

\* waitForResult, lines 66-69, for that signal
ControlReturnMore ==
  /\ pc = "controlMore"
  /\ pc' = "select"
  /\ UNCHANGED <<args, containerID, registered, signals, waitCmdRes, bg, sig,
                 action, waitResult, waitOutput, waiterr, finalExitCode,
                 exitArg, exitAt, calls, hist>>

LiveNext ==
  \/ ValidateArgs
  \/ RunCall
  \/ RunReturn
  \/ Notify
  \/ Go
  \/ BgStart
  \/ BgSend
  \/ (Len(hist.received) < LiveSignals /\ SelectSignal)
  \/ SelectSignalMore
  \/ ControlReturn
  \/ ControlReturnMore
  \/ SelectWait
  \/ Fallback
  \/ Extract
  \/ Logs
  \/ Rm
  \/ \E s \in Signals : (hist.delivered < LiveSignals /\ Deliver(s))
  \/ \E s \in Signals : DeliverMore(s)

\* the steps of the main goroutine other than the select: each is a
\* statement that runs, or an external command that returns
MainStep ==
  \/ ValidateArgs
  \/ RunCall
  \/ RunReturn
  \/ Notify
  \/ Go
  \/ ControlReturn
  \/ ControlReturnMore
  \/ Fallback
  \/ Extract
  \/ Logs
  \/ Rm

\* waitForResult, line 56: the select, which goes on when a case is ready
Select ==
  \/ (Len(hist.received) < LiveSignals /\ SelectSignal)
  \/ SelectSignalMore
  \/ SelectWait

\* The goroutine runs and its docker wait returns; the main goroutine runs;
\* the select does not wait when a case is ready, and chooses at random among
\* its ready cases, so a case that is ready again and again is chosen in
\* the end.
LiveSpec ==
  /\ Init
  /\ [][LiveNext]_vars
  /\ WF_vars(MainStep)
  /\ WF_vars(Select)
  /\ WF_vars(BgStart)
  /\ WF_vars(BgSend)
  /\ SF_vars(SelectWait)

\* ---------------------------------------------------------------- history
\* number of invocations of the given verb issued so far
Count(verb) == Cardinality({ i \in DOMAIN calls : calls[i].verb = verb })

\* number of stop and kill invocations issued so far
CtlCount == Count("stop") + Count("kill")

\* positions of the invocations of the given verb
At(verb) == { i \in DOMAIN calls : calls[i].verb = verb }

\* the wait outcome the extraction works on: the fallback's when the
\* background one carried an error
Used == IF hist.first[1].err THEN hist.fallback[1] ELSE hist.first[1]

Resolved == hist.first # <<>> /\ (hist.first[1].err => hist.fallback # <<>>)

\* s is an optional sign followed by one or more decimal digits
IsInteger(s) ==
  \/ s # <<>> /\ \A i \in 1..Len(s) : s[i] \in Digits
  \/ /\ Len(s) > 1
     /\ s[1] \in {"+", "-"}
     /\ \A i \in 2..Len(s) : s[i] \in Digits

AfterExtract == {"logs", "rm"}

\* ---------------------------------------------------------------- claims

\* C1: once the exit code has been parsed from the wait output, no outcome
\* of docker logs or docker rm changes it: whatever logs returned, rm is
\* invoked after it, and the run ends with os.Exit of the parsed code.
C1_LogsRmKeepExitCode ==
  /\ (pc \in AfterExtract \/ (pc = "exited" /\ exitAt = "end"))
       => /\ Resolved
          /\ finalExitCode = Atoi(Trim(Used.output)).val
  /\ (pc = "exited" /\ hist.logs # <<>>)
       => /\ exitAt = "end"
          /\ hist.rm # <<>>
          /\ exitArg = Atoi(Trim(Used.output)).val
          /\ \E i \in At("logs"), j \in At("rm") : i < j
  /\ pc = "rm" => hist.logs # <<>>

C1_Witness ==
  /\ pc = "exited"
  /\ exitAt = "end"
  /\ hist.logs = <<TRUE>>
  /\ hist.rm = <<TRUE>>
  /\ exitArg = 137

\* C2: docker wait is invoked once when the background outcome carries no
\* error, twice when it carries one, never a third time, and not at all when
\* the launch failed.
C2_WaitCount ==
  /\ Count("wait") <= 2
  /\ (pc = "exited" /\ exitAt \in {"usage", "launch", "handle"}) => Count("wait") = 0
  /\ (pc = "exited" /\ exitAt \in {"wait", "atoi", "end"})
       => /\ hist.first # <<>>
          /\ Count("wait") = IF hist.first[1].err THEN 2 ELSE 1

C2_Witness ==
  /\ pc = "exited"
  /\ exitAt = "end"
  /\ hist.first[1].err
  /\ Count("wait") = 2
  /\ CtlCount > 0

\* C3: when the background wait outcome carries an error and the fallback
\* returns no error and the text of an integer n (without the error marker),
\* the exit code is n; the first outcome's text plays no part.
C3_FallbackDecides ==
  ( /\ hist.first # <<>>
    /\ hist.first[1].err
    /\ hist.fallback # <<>>
    /\ ~hist.fallback[1].err
    /\ ~Contains(hist.fallback[1].output, ErrorMarker)
    /\ IsInteger(Trim(hist.fallback[1].output))
    /\ pc # "extract" )
  => /\ finalExitCode = Atoi(Trim(hist.fallback[1].output)).val
     /\ pc \in AfterExtract \cup {"exited"}
     /\ pc = "exited" => exitAt = "end" /\ exitArg = finalExitCode

C3_Witness ==
  /\ pc = "exited"
  /\ hist.first # <<>>
  /\ hist.first[1] = [output |-> <<"0", NL>>, err |-> TRUE]
  /\ hist.fallback # <<>>
  /\ hist.fallback[1] = [output |-> <<"1","3","7",NL>>, err |-> FALSE]
  /\ exitArg = 137

\* the selection loop of waitForResult has returned
LoopReturned == pc \in {"fallback", "extract", "logs", "rm"} \/ (pc = "exited" /\ registered)

\* C4 as stated: every signal that arrived before the background wait
\* finished has had exactly one stop/kill invocation by the time the loop
\* returns.
C4_OnePerSignal == LoopReturned => CtlCount = hist.early

\* C4 as amended: every signal the loop takes from the channel causes exactly
\* one stop/kill invocation against the handle; a signal arriving while the
\* channel's slot is taken is discarded and one still in the channel when
\* the loop returns is not relayed, so the invocations never outnumber the
\* signals that arrived.
C4_OnePerReceived ==
  /\ CtlCount = Len(hist.received)
  /\ \A i \in At("stop") \cup At("kill") : calls[i].id = containerID
  /\ registered => hist.delivered = hist.dropped + Len(hist.received) + Len(signals)
  /\ CtlCount <= hist.delivered
  /\ pc = "control" <=> hist.ctlDone < CtlCount

C4_Witness ==
  /\ LoopReturned
  /\ hist.early = 3
  /\ hist.dropped = 1
  /\ CtlCount = 1
  /\ signals # <<>>

\* C5: taking a signal never ends the run: once the signals are registered
\* the run ends only after the loop has taken the wait outcome from the
\* result channel, and then at one of the exits of the extraction path, the
\* fallback having been invoked exactly when that outcome carried an error.
C5_SignalNeverExits ==
  /\ pc \in {"select", "control"} => exitArg = 0 /\ exitAt = None
  /\ (pc = "exited" /\ registered)
       => /\ exitAt \in {"wait", "atoi", "end"}
          /\ hist.first # <<>>
          /\ waitResult = hist.first[1]
          /\ waitCmdRes = <<>>
          /\ bg = "done"
          /\ hist.ctlDone = CtlCount
          /\ (hist.fallback # <<>>) <=> hist.first[1].err

C5_Witness ==
  /\ pc = "exited"
  /\ Len(hist.received) = 2
  /\ exitAt = "end"
  /\ hist.fallback = <<>>

\* C6: when docker run returns an error, or an output that is shorter than
\* 4 characters once its newlines are trimmed, the run ends with status 1
\* and docker run is the only invocation ever issued.
C6_LaunchFailure ==
  ( /\ hist.run # <<>>
    /\ \/ hist.run[1].err
       \/ \A i, j \in DOMAIN hist.run[1].output :
            hist.run[1].output[i] # NL /\ hist.run[1].output[j] # NL => j - i + 1 < 4 )
  => /\ pc = "exited"
     /\ exitArg = 1
     /\ Len(calls) = 1
     /\ calls[1].verb = "run"
     /\ bg = "none"

C6_Witness ==
  /\ pc = "exited"
  /\ hist.run # <<>>
  /\ ~hist.run[1].err
  /\ hist.run[1].output = <<"a","b","c",NL>>
  /\ exitArg = 1

\* C7: for an argument vector that is empty or holds -i or -a at any
\* position, the run ends with status 1 and no invocation is issued.
C7_UsageError ==
  (args = <<>> \/ \E i \in DOMAIN args : args[i] \in {"-i", "-a"})
  => /\ calls = <<>>
     /\ pc \in {"validateArgs", "exited", "killed"}
     /\ pc = "exited" => exitArg = 1 /\ exitAt = "usage"

C7_Witness ==
  /\ pc = "exited"
  /\ args = <<"img", "-a">>
  /\ exitArg = 1
  /\ calls = <<>>

\* id is out without its leading and trailing newlines
IsTrimOf(id, out) ==
  /\ id # <<>> => id[1] # NL /\ id[Len(id)] # NL
  /\ \E i \in 0..(Len(out) - Len(id)) :
       /\ SubSeq(out, i + 1, i + Len(id)) = id
       /\ \A k \in 1..i : out[k] = NL
       /\ \A k \in (i + Len(id) + 1)..Len(out) : out[k] = NL

\* C8: when the wait outcome used for extraction carries no error and is the
\* text of an integer n, the invocations are docker run, then wait, then
\* logs, then rm, with logs and rm issued once each, every one after run
\* keyed on the trimmed output of docker run, and the run ends with n.
C8_HappyPathOrder ==
  ( /\ pc = "exited"
    /\ Resolved
    /\ ~Used.err
    /\ IsInteger(Trim(Used.output)) )
  => /\ exitAt = "end"
     /\ exitArg = Atoi(Trim(Used.output)).val
     /\ At("run") = {1}
     /\ Count("logs") = 1
     /\ Count("rm") = 1
     /\ \A i \in At("wait"), j \in At("logs"), k \in At("rm") :
          1 < i /\ i < j /\ j < k /\ k = Len(calls)
     /\ IsTrimOf(containerID, hist.run[1].output)
     /\ \A i \in 2..Len(calls) : calls[i].id = containerID

C8_Witness ==
  /\ pc = "exited"
  /\ hist.first = << [output |-> <<"0", NL>>, err |-> FALSE] >>
  /\ exitArg = 0
  /\ Count("wait") = 1
  /\ Count("logs") = 1
  /\ Count("rm") = 1
  /\ containerID = <<"a","b","c","d">>

\* C9: after fallback resolution, an outcome that carries an error, or holds
\* the error marker, or whose trimmed output is not the text of an integer,
\* ends the run with status 1.
C9_WaitFailureExits1 ==
  ( /\ pc \in AfterExtract \cup {"exited"}
    /\ Resolved
    /\ \/ Used.err
       \/ Contains(Used.output, ErrorMarker)
       \/ ~IsInteger(Trim(Used.output)) )
  => /\ pc = "exited"
     /\ exitArg = 1
     /\ exitAt \in {"wait", "atoi"}

C9_Witness ==
  /\ pc = "exited"
  /\ exitAt = "atoi"
  /\ hist.first # <<>>
  /\ hist.first[1].err
  /\ hist.fallback = << [output |-> <<"a","b","c",NL>>, err |-> FALSE] >>
  /\ exitArg = 1

\* the status the run ends with, as the wait outcomes alone determine it
ExitFromWait ==
  IF Used.err \/ Contains(Used.output, ErrorMarker) \/ ~IsInteger(Trim(Used.output))
    THEN 1
    ELSE Atoi(Trim(Used.output)).val

\* C10: a stop/kill invocation that fails does not end the run: whatever it
\* returned, the loop is back at its selection with both channels as they
\* were, and the status the run ends with is the one the wait outcomes
\* determine.
C10_ControlFailureNonFatal ==
  /\ [][ (pc = "control" /\ hist'.ctlDone > hist.ctlDone)
           => /\ pc' = "select"
              /\ UNCHANGED <<signals, waitCmdRes, containerID, calls,
                             finalExitCode, exitArg, exitAt>> ]_vars
  /\ []( (pc = "exited" /\ registered) => Resolved /\ exitArg = ExitFromWait )

C10_Witness ==
  /\ pc = "exited"
  /\ hist.ctlFirst = <<TRUE>>
  /\ Len(hist.received) = 2
  /\ exitAt = "end"
  /\ exitArg = 137

\* os.Exit(code), line 173: the status the parent observes is the low 8 bits
ExitStatus == exitArg % 256

\* C11 as stated: a run that ends with a workload-derived code ends with the
\* value docker wait reported, and that value lies in 0..255.
C11_ExitCodeInRange ==
  (pc = "exited" /\ exitAt = "end")
  => /\ exitArg = Atoi(Trim(Used.output)).val
     /\ exitArg \in 0..255
     /\ ExitStatus = exitArg

\* C11 as amended: the integer parsed from the wait text is passed to
\* os.Exit as it is, with no range check; the status observed is that
\* integer modulo 256, which is the reported value exactly when the
\* reported value lies in 0..255.  Every other exit passes 1.
C11_ExitCodeUnchecked ==
  /\ (pc = "exited" /\ exitAt = "end")
       => /\ Resolved
          /\ exitArg = Atoi(Trim(Used.output)).val
          /\ exitArg = finalExitCode
          /\ ExitStatus \in 0..255
          /\ (ExitStatus = Atoi(Trim(Used.output)).val) <=> (exitArg \in 0..255)
  /\ (pc = "exited" /\ exitAt # "end") => exitArg = 1 /\ ExitStatus = 1

C11_Witness ==
  /\ pc = "exited"
  /\ exitAt = "end"
  /\ Used.output = <<"2","5","6",NL>>
  /\ exitArg = 256
  /\ ExitStatus = 0

\* C13: a signal the host sends once docker run has been started is never
\* lost: it does not end the coordinator, whatever the moment it arrives.
C13_NoSignalLostAtStartup ==
  (Count("run") > 0 /\ hist.delivered > 0) => pc # "killed"

\* the stop/kill invocations issued so far, in order
CtlCalls == SelectSeq(calls, LAMBDA c : c.verb \in {"stop", "kill"})

\* C14: the i-th stop/kill invocation carries the verb of the i-th signal
\* the loop took: stop for interrupt, kill for kill, whatever came before.
C14_VerbMatchesSignal ==
  /\ Len(CtlCalls) = Len(hist.received)
  /\ \A i \in 1..Len(CtlCalls) :
       /\ hist.received[i] = Interrupt => CtlCalls[i].verb = "stop"
       /\ hist.received[i] = Kill => CtlCalls[i].verb = "kill"
  /\ pc = "control" =>
       /\ action \in {"stop", "kill"}
       /\ action = CtlCalls[Len(CtlCalls)].verb
       /\ sig = hist.received[Len(hist.received)]

C14_Witness ==
  /\ hist.received = <<Interrupt, Kill, Interrupt>>
  /\ Len(CtlCalls) = 3
  /\ CtlCalls[1].verb = "stop"
  /\ CtlCalls[2].verb = "kill"
  /\ CtlCalls[3].verb = "stop"

\* C15: one goroutine per run, which goes through its steps once; it sends
\* once on the result channel, which is empty when it sends; the loop takes
\* that result once, and is never left waiting for a result that cannot come.
C15_OneBackgroundTask ==
  /\ []( /\ Len(waitCmdRes) <= 1
         /\ bg \in {"created", "running"} => waitCmdRes = <<>> /\ pc \in {"select", "control"}
         /\ bg = "none" => waitCmdRes = <<>> /\ hist.first = <<>> /\ Count("wait") = 0
         /\ bg = "done" => hist.first # <<>>
         /\ (bg = "done" /\ pc \in {"select", "control"}) => waitCmdRes = <<hist.first[1]>>
         /\ LoopReturned => bg = "done" /\ waitCmdRes = <<>> /\ waitResult = hist.first[1] )
  /\ [][ /\ bg' # bg => <<bg, bg'>> \in { <<"none", "created">>, <<"created", "running">>,
                                         <<"running", "done">> }
         /\ Len(waitCmdRes') > Len(waitCmdRes) => bg = "running" /\ bg' = "done"
         /\ Len(waitCmdRes') < Len(waitCmdRes) => pc = "select" /\ pc' \in {"fallback", "extract"}
       ]_vars

C15_Witness ==
  /\ pc = "exited"
  /\ exitAt = "end"
  /\ bg = "done"
  /\ waitCmdRes = <<>>
  /\ Len(hist.received) = 3
  /\ hist.early = 1

\* C16: the fallback is triggered by the error indicator of the first
\* outcome only: when that outcome carries no error but its output holds the
\* error marker, docker wait is not invoked again and the run ends with 1.
C16_MarkerAloneNoFallback ==
  ( /\ hist.first # <<>>
    /\ ~hist.first[1].err
    /\ Contains(hist.first[1].output, ErrorMarker) )
  => /\ hist.fallback = <<>>
     /\ Count("wait") = 1
     /\ pc \in {"select", "control", "extract", "exited"}
     /\ pc = "exited" => exitArg = 1 /\ exitAt = "wait"

C16_Witness ==
  /\ pc = "exited"
  /\ hist.first = << [output |-> <<"E","r","r","o","r",":"," ","x",NL>>, err |-> FALSE] >>
  /\ Count("wait") = 1
  /\ exitArg = 1

\* C17: stop/kill is invoked only by the step of the loop that takes a
\* signal: once the loop has returned no stop/kill is invoked any more, and
\* a signal that arrives then stays in the channel or is discarded.
C17_RelayOnlyInLoop ==
  [][ /\ CtlCount' # CtlCount
        => /\ pc = "select"
           /\ pc' = "control"
           /\ CtlCount' = CtlCount + 1
           /\ Len(signals') = Len(signals) - 1
      /\ LoopReturned
        => /\ CtlCount' = CtlCount
           /\ hist'.received = hist.received
           /\ Len(signals') >= Len(signals)
           /\ LoopReturned'
    ]_vars

C17_Witness ==
  /\ pc = "exited"
  /\ exitAt = "end"
  /\ hist.fallback # <<>>
  /\ hist.delivered = 1
  /\ hist.early = 0
  /\ signals = <<Kill>>
  /\ CtlCount = 0

\* C18: docker logs and docker rm are invoked only once an exit code has
\* been parsed: a run that ends at the wait-failure or parse-failure exit
\* has invoked neither, and its container is not removed.
C18_NoCleanupOnWaitFailure ==
  /\ (Count("logs") > 0 \/ Count("rm") > 0)
       => /\ Resolved
          /\ ~Used.err
          /\ ~Contains(Used.output, ErrorMarker)
          /\ IsInteger(Trim(Used.output))
          /\ pc \in {"rm", "exited"}
          /\ pc = "exited" => exitAt = "end"
  /\ (pc = "exited" /\ exitAt \in {"wait", "atoi"})
       => /\ Count("logs") = 0
          /\ Count("rm") = 0
          /\ Count("run") = 1
          /\ Count("wait") >= 1

C18_Witness ==
  /\ pc = "exited"
  /\ exitAt = "wait"
  /\ hist.fallback # <<>>
  /\ hist.fallback[1].err
  /\ CtlCount = 1
  /\ Count("wait") = 2
  /\ Count("logs") = 0
  /\ Count("rm") = 0

\* C12: once the goroutine has put its outcome on the result channel, the
\* loop takes it and returns, however many signals arrive and are relayed
\* in between; and once the exit code has been parsed, the run ends at
\* line 173 after docker logs and docker rm.
C12_NoStarvation ==
  /\ (waitCmdRes # <<>>) ~> LoopReturned
  /\ (pc = "logs") ~> (pc = "exited" /\ exitAt = "end" /\ hist.logs # <<>> /\ hist.rm # <<>>)

C12_Witness ==
  /\ pc = "controlMore"
  /\ waitCmdRes # <<>>
  /\ signals # <<>>
  /\ hist.received # <<>>

====
